---- MODULE Spec2Model ----
(***************************************************************************)
(* Statement attribute processing of lib/Sema/SemaStmtAttr.cpp:            *)
(* ProcessStmtAttributes gates and decodes every attribute of a            *)
(* statement's attribute list (handleFallThroughAttr, handleLoopHintAttr), *)
(* runs CheckForIncompatibleAttributes once over the accepted attributes   *)
(* and attaches them to the statement.                                     *)
(***************************************************************************)
EXTENDS Integers, Sequences, FiniteSets, TLC

VARIABLES St, SwitchStackEmpty, AttrList, l, Attrs, Diags, HintAttrs, I, pc, Result, Call

vars == <<St, SwitchStackEmpty, AttrList, l, Attrs, Diags, HintAttrs, I, pc, Result, Call>>

\* Longest attribute list of one statement.
MaxAttrs == 3

\* Most calls of ProcessStmtAttributes in one run.
MaxCalls == 2

(***************************************************************************)
(* Values                                                                  *)
(***************************************************************************)

\* The null pointer of an attribute slot; attributes are named by their
\* position (1..) in the Attrs vector.
nullptr == 0

\* An IdentifierLoc* that is null, and an IdentifierLoc whose Ident is null.
NullLoc == "<nullptr>"
NullIdent == "<noident>"

\* A 64-bit APSInt value is kept as four 16-bit limbs, most significant first.
LimbBase == 65536

SignLimb == 32768

APS(l3, l2, l1, l0) == <<l3, l2, l1, l0>>

\* v >= 1 on the 64-bit value itself (what the hint's value is measured against).
APSAtLeastOne(v) == v[1] < SignLimb /\ v # APS(0, 0, 0, 0)

\* The 64-bit value that an int sign-extends to.
APSOfInt(n) ==
  LET hi == n \div LimbBase
      lo == n % LimbBase
  IN IF n < 0 THEN APS(LimbBase - 1, LimbBase - 1, hi + LimbBase, lo)
     ELSE APS(0, 0, hi, lo)

\* int ValueInt = ValueAPS.getSExtValue(): the int64_t is narrowed to a 32-bit int.
NarrowToInt(v) ==
  IF v[3] >= SignLimb THEN (v[3] - LimbBase) * LimbBase + v[4]
  ELSE v[3] * LimbBase + v[4]

\* Statement classes the handlers tell apart.
LoopStmtClasses == {"DoStmt", "ForStmt", "CXXForRangeStmt", "WhileStmt"}

SwitchCaseClasses == {"CaseStmt", "DefaultStmt"}

StmtClasses == {"NullStmt", "IfStmt"} \cup SwitchCaseClasses \cup LoopStmtClasses

\* Value expressions: absent, not an integer constant expression, or a constant.
NoExpr == [isNull |-> TRUE, isICE |-> FALSE, APS |-> APS(0, 0, 0, 0)]

NonConstExpr == [isNull |-> FALSE, isICE |-> FALSE, APS |-> APS(0, 0, 0, 0)]

ConstExpr(v) == [isNull |-> FALSE, isICE |-> TRUE, APS |-> v]

\* Raw attributes (AttributeList entries).
RawAttr(k, p, o, v, e, d) ==
  [Kind |-> k, PragmaName |-> p, OptionName |-> o, ValueLoc |-> v, ValueExpr |-> e,
   Declspec |-> d]

RawLoopHint(p, o, v, e) == RawAttr("AT_LoopHint", p, o, v, e, FALSE)

RawOther(k, d) == RawAttr(k, "", "", NullLoc, NoExpr, d)

\* Attr objects: the null result, a FallThroughAttr, a LoopHintAttr.
NoAttr == [attr |-> "nullptr", Spelling |-> "", Option |-> "", Value |-> 0, Range |-> 0]

FallThroughAttr(r) ==
  [attr |-> "FallThroughAttr", Spelling |-> "", Option |-> "", Value |-> 0, Range |-> r]

LoopHintAttr(s, o, v, r) ==
  [attr |-> "LoopHintAttr", Spelling |-> s, Option |-> o, Value |-> v, Range |-> r]

\* A diagnostic: its id, where it points (the attribute's position), a streamed
\* string, and for err_pragma_loop_compatibility the Duplicate flag and the two
\* attributes whose names are streamed, in order.
Diag(id, loc, str) ==
  [id |-> id, loc |-> loc, str |-> str, Duplicate |-> FALSE, first |-> nullptr,
   second |-> nullptr]

CompatDiag(loc, dup, a, b) ==
  [id |-> "err_pragma_loop_compatibility", loc |-> loc, str |-> "", Duplicate |-> dup,
   first |-> a, second |-> b]

Ret(a, ds) == [attr |-> a, diags |-> ds]

(***************************************************************************)
(* handleFallThroughAttr                                                   *)
(***************************************************************************)

\* handleFallThroughAttr looking for the enclosing switch first.
handleFallThroughAttr_SwitchFirst(st, switchEmpty, A, r) ==
  IF switchEmpty THEN
    Ret(NoAttr, <<Diag("err_fallthrough_attr_outside_switch", r, "")>>)
  ELSE IF st # "NullStmt" THEN
    Ret(NoAttr,
        <<Diag("err_fallthrough_attr_wrong_target", r, "")>>
        \o (IF st \in SwitchCaseClasses
            THEN <<Diag("note_fallthrough_insert_semi_fixit", r, ";")>>
            ELSE <<>>))
  ELSE Ret(FallThroughAttr(r), <<>>)

handleFallThroughAttr(st, switchEmpty, A, r) ==
  IF st # "NullStmt" THEN
    Ret(NoAttr,
        <<Diag("err_fallthrough_attr_wrong_target", r, "")>>
        \o (IF st \in SwitchCaseClasses
            THEN <<Diag("note_fallthrough_insert_semi_fixit", r, ";")>>
            ELSE <<>>))
  ELSE IF switchEmpty THEN
    Ret(NoAttr, <<Diag("err_fallthrough_attr_outside_switch", r, "")>>)
  ELSE Ret(FallThroughAttr(r), <<>>)

(***************************************************************************)
(* handleLoopHintAttr                                                      *)
(***************************************************************************)

\* IsLoopStmt taking a null statement for a loop as well.
IsLoopStmt_OrNull(st) == st \in LoopStmtClasses \cup {"NullStmt"}

\* IsLoopStmt without the range-based for statement.
IsLoopStmt_NoRangeFor(st) == st \in {"DoStmt", "ForStmt", "WhileStmt"}

IsLoopStmt(st) == st \in LoopStmtClasses

PragmaString(name) ==
  CASE name = "unroll" -> "#pragma unroll"
    [] name = "nounroll" -> "#pragma nounroll"
    [] OTHER -> "#pragma clang loop"

\* OptionOfName with another default.
OptionOfName_DefaultWidth(name) ==
  CASE name = "vectorize" -> "Vectorize"
    [] name = "vectorize_width" -> "VectorizeWidth"
    [] name = "interleave" -> "Interleave"
    [] name = "interleave_count" -> "InterleaveCount"
    [] name = "unroll" -> "Unroll"
    [] name = "unroll_count" -> "UnrollCount"
    [] OTHER -> "VectorizeWidth"

OptionOfName(name) ==
  CASE name = "vectorize" -> "Vectorize"
    [] name = "vectorize_width" -> "VectorizeWidth"
    [] name = "interleave" -> "Interleave"
    [] name = "interleave_count" -> "InterleaveCount"
    [] name = "unroll" -> "Unroll"
    [] name = "unroll_count" -> "UnrollCount"
    [] OTHER -> "Vectorize"

\* OptionOf taking the option of "#pragma nounroll" from its option name.
OptionOf_NoUnrollByName(A) ==
  IF A.PragmaName = "unroll" THEN
    (IF A.ValueLoc # NullLoc THEN "UnrollCount" ELSE "Unroll")
  ELSE OptionOfName(A.OptionName)

OptionOf(A) ==
  IF A.PragmaName = "unroll" THEN
    (IF A.ValueLoc # NullLoc THEN "UnrollCount" ELSE "Unroll")
  ELSE IF A.PragmaName = "nounroll" THEN "Unroll"
  ELSE OptionOfName(A.OptionName)

SpellingOf(A) ==
  IF A.PragmaName = "unroll" THEN "Pragma_unroll"
  ELSE IF A.PragmaName = "nounroll" THEN "Pragma_nounroll"
  ELSE "Pragma_clang_loop"

EnableOptions == {"Vectorize", "Interleave", "Unroll"}

NumericOptions == {"VectorizeWidth", "InterleaveCount", "UnrollCount"}

\* TrueKeyword with "enable" for every option.
TrueKeyword_AlwaysEnable(Option) == "enable"

TrueKeyword(Option) == IF Option = "Unroll" THEN "full" ELSE "enable"

ValueInfoOf(A) == IF A.ValueLoc = NullLoc THEN NullIdent ELSE A.ValueLoc

\* The enable-form branch: the keyword decides the value.
DecodeKeyword(A, Spelling, Option, r) ==
  LET ValueInfo == ValueInfoOf(A)
      bad == Ret(NoAttr, <<Diag("err_pragma_loop_invalid_keyword", r, TrueKeyword(Option))>>)
  IN IF ValueInfo = NullIdent THEN bad
     ELSE IF ValueInfo = "disable" THEN Ret(LoopHintAttr(Spelling, Option, 0, r), <<>>)
     ELSE IF ValueInfo = TrueKeyword(Option) THEN Ret(LoopHintAttr(Spelling, Option, 1, r), <<>>)
     ELSE bad

\* DecodeNumeric comparing the constant with 1 before it is narrowed to int.
DecodeNumeric_TestBeforeNarrowing(A, Spelling, Option, r) ==
  LET E == A.ValueExpr IN
  IF E.isNull \/ ~E.isICE \/ ~(E.APS[1] < SignLimb /\ E.APS # APS(0, 0, 0, 0))
  THEN Ret(NoAttr, <<Diag("err_pragma_loop_invalid_value", r, "")>>)
  ELSE Ret(LoopHintAttr(Spelling, Option, NarrowToInt(E.APS), r), <<>>)

\* The numeric-form branch: the constant, narrowed to int, must be at least 1.
DecodeNumeric(A, Spelling, Option, r) ==
  LET E == A.ValueExpr IN
  IF E.isNull \/ ~E.isICE \/ NarrowToInt(E.APS) < 1
  THEN Ret(NoAttr, <<Diag("err_pragma_loop_invalid_value", r, "")>>)
  ELSE Ret(LoopHintAttr(Spelling, Option, NarrowToInt(E.APS), r), <<>>)

DecodeValue(A, Spelling, Option, r) ==
  IF Option = "Unroll" /\ Spelling = "Pragma_unroll" THEN
    Ret(LoopHintAttr(Spelling, Option, 1, r), <<>>)
  ELSE IF Option = "Unroll" /\ Spelling = "Pragma_nounroll" THEN
    Ret(LoopHintAttr(Spelling, Option, 0, r), <<>>)
  ELSE IF Option \in EnableOptions THEN DecodeKeyword(A, Spelling, Option, r)
  ELSE DecodeNumeric(A, Spelling, Option, r)

handleLoopHintAttr(st, A, r) ==
  IF ~IsLoopStmt(st) THEN
    Ret(NoAttr, <<Diag("err_pragma_loop_precedes_nonloop", r, PragmaString(A.PragmaName))>>)
  ELSE DecodeValue(A, SpellingOf(A), OptionOf(A), r)

(***************************************************************************)
(* ProcessStmtAttribute                                                    *)
(***************************************************************************)

\* ProcessStmtAttribute whose UnknownAttribute case lacks its return and falls
\* into the next case.
ProcessStmtAttribute_UnknownFallsThrough(st, switchEmpty, A, r) ==
  CASE A.Kind = "UnknownAttribute" ->
         LET f == handleFallThroughAttr(st, switchEmpty, A, r)
         IN Ret(f.attr,
                <<Diag(IF A.Declspec THEN "warn_unhandled_ms_attribute_ignored"
                       ELSE "warn_unknown_attribute_ignored", r, "")>> \o f.diags)
    [] A.Kind = "AT_FallThrough" -> handleFallThroughAttr(st, switchEmpty, A, r)
    [] A.Kind = "AT_LoopHint" -> handleLoopHintAttr(st, A, r)
    [] OTHER -> Ret(NoAttr, <<Diag("err_attribute_invalid_on_stmt", r, "")>>)

ProcessStmtAttribute(st, switchEmpty, A, r) ==
  CASE A.Kind = "UnknownAttribute" ->
         Ret(NoAttr,
             <<Diag(IF A.Declspec THEN "warn_unhandled_ms_attribute_ignored"
                    ELSE "warn_unknown_attribute_ignored", r, "")>>)
    [] A.Kind = "AT_FallThrough" -> handleFallThroughAttr(st, switchEmpty, A, r)
    [] A.Kind = "AT_LoopHint" -> handleLoopHintAttr(st, A, r)
    [] OTHER -> Ret(NoAttr, <<Diag("err_attribute_invalid_on_stmt", r, "")>>)

(***************************************************************************)
(* CheckForIncompatibleAttributes                                          *)
(***************************************************************************)

Categories == {"Vectorize", "Interleave", "Unroll"}

NoHints == [c \in Categories |-> [EnableAttr |-> nullptr, NumericAttr |-> nullptr]]

\* CategoryOf with the interleave options under the vectorize category.
CategoryOf_InterleaveAsVectorize(Option) ==
  CASE Option \in {"Vectorize", "VectorizeWidth"} -> "Vectorize"
    [] Option \in {"Interleave", "InterleaveCount"} -> "Vectorize"
    [] Option \in {"Unroll", "UnrollCount"} -> "Unroll"

CategoryOf(Option) ==
  CASE Option \in {"Vectorize", "VectorizeWidth"} -> "Vectorize"
    [] Option \in {"Interleave", "InterleaveCount"} -> "Interleave"
    [] Option \in {"Unroll", "UnrollCount"} -> "Unroll"

IsEnableOption(Option) == Option \in {"Vectorize", "Interleave", "Unroll"}

\* PrevAttrOf reading the enable slot for both forms.
PrevAttrOf_EnableOnly(CategoryState, Option) == CategoryState.EnableAttr

\* PrevAttr: the occupant of the slot of the hint's form, read before the store.
PrevAttrOf(CategoryState, Option) ==
  IF IsEnableOption(Option) THEN CategoryState.EnableAttr ELSE CategoryState.NumericAttr

\* StoreAttr keeping the first occupant of a slot.
StoreAttr_KeepFirst(CategoryState, Option, LH) ==
  IF PrevAttrOf(CategoryState, Option) # nullptr THEN CategoryState
  ELSE IF IsEnableOption(Option) THEN [CategoryState EXCEPT !.EnableAttr = LH]
  ELSE [CategoryState EXCEPT !.NumericAttr = LH]

\* The slot of the hint's form is overwritten with the hint.
StoreAttr(CategoryState, Option, LH) ==
  IF IsEnableOption(Option) THEN [CategoryState EXCEPT !.EnableAttr = LH]
  ELSE [CategoryState EXCEPT !.NumericAttr = LH]

\* IsIncompatible without the special case of the unroll category.
IsIncompatible_NoUnrollCase(attrs, CategoryState, Category) ==
  /\ CategoryState.EnableAttr # nullptr
  /\ CategoryState.NumericAttr # nullptr
  /\ attrs[CategoryState.EnableAttr].Value = 0

\* Both slots occupied, and the category is unroll or the enable hint's value is 0.
IsIncompatible(attrs, CategoryState, Category) ==
  /\ CategoryState.EnableAttr # nullptr
  /\ CategoryState.NumericAttr # nullptr
  /\ (Category = "Unroll" \/ attrs[CategoryState.EnableAttr].Value = 0)

\* CheckAttr reading the slot only after the store.
CheckAttr_ReadAfterStore(attrs, H, i) ==
  IF attrs[i].attr # "LoopHintAttr" THEN [HintAttrs |-> H, diags |-> <<>>]
  ELSE
    LET Option == attrs[i].Option
        Category == CategoryOf(Option)
        CategoryState == StoreAttr(H[Category], Option, i)
        PrevAttr == PrevAttrOf(CategoryState, Option)
        OptionLoc == attrs[i].Range
        dup == IF PrevAttr # nullptr THEN <<CompatDiag(OptionLoc, TRUE, PrevAttr, i)>> ELSE <<>>
        inc == IF IsIncompatible(attrs, CategoryState, Category)
               THEN <<CompatDiag(OptionLoc, FALSE, CategoryState.EnableAttr,
                                 CategoryState.NumericAttr)>>
               ELSE <<>>
    IN [HintAttrs |-> [H EXCEPT ![Category] = CategoryState], diags |-> dup \o inc]

\* CheckAttr testing compatibility only when a numeric hint is processed.
CheckAttr_NumericOnly(attrs, H, i) ==
  IF attrs[i].attr # "LoopHintAttr" THEN [HintAttrs |-> H, diags |-> <<>>]
  ELSE
    LET Option == attrs[i].Option
        Category == CategoryOf(Option)
        PrevAttr == PrevAttrOf(H[Category], Option)
        CategoryState == StoreAttr(H[Category], Option, i)
        OptionLoc == attrs[i].Range
        dup == IF PrevAttr # nullptr THEN <<CompatDiag(OptionLoc, TRUE, PrevAttr, i)>> ELSE <<>>
        inc == IF ~IsEnableOption(Option) /\ IsIncompatible(attrs, CategoryState, Category)
               THEN <<CompatDiag(OptionLoc, FALSE, CategoryState.EnableAttr,
                                 CategoryState.NumericAttr)>>
               ELSE <<>>
    IN [HintAttrs |-> [H EXCEPT ![Category] = CategoryState], diags |-> dup \o inc]

\* One iteration of the loop over Attrs, for the attribute at position i.
CheckAttr(attrs, H, i) ==
  IF attrs[i].attr # "LoopHintAttr" THEN [HintAttrs |-> H, diags |-> <<>>]
  ELSE
    LET Option == attrs[i].Option
        Category == CategoryOf(Option)
        PrevAttr == PrevAttrOf(H[Category], Option)
        CategoryState == StoreAttr(H[Category], Option, i)
        OptionLoc == attrs[i].Range
        dup == IF PrevAttr # nullptr THEN <<CompatDiag(OptionLoc, TRUE, PrevAttr, i)>> ELSE <<>>
        inc == IF IsIncompatible(attrs, CategoryState, Category)
               THEN <<CompatDiag(OptionLoc, FALSE, CategoryState.EnableAttr,
                                 CategoryState.NumericAttr)>>
               ELSE <<>>
    IN [HintAttrs |-> [H EXCEPT ![Category] = CategoryState], diags |-> dup \o inc]

\* The whole loop from position i on: the diagnostics it emits.
RECURSIVE CheckFrom(_, _, _)
CheckFrom(attrs, H, i) ==
  IF i > Len(attrs) THEN <<>>
  ELSE LET r == CheckAttr(attrs, H, i)
       IN r.diags \o CheckFrom(attrs, r.HintAttrs, i + 1)

CheckForIncompatibleAttributes(attrs) == CheckFrom(attrs, NoHints, 1)

(***************************************************************************)
(* Sema::ProcessStmtAttributes                                             *)
(***************************************************************************)

\* StmtResult without the test for an empty vector.
StmtResult_AlwaysAttributed(S, attrs) == [attributed |-> TRUE, Attrs |-> attrs, SubStmt |-> S]

\* What is returned: the statement itself, or the AttributedStmt around it.
StmtResult(S, attrs) ==
  IF attrs = <<>> THEN [attributed |-> FALSE, Attrs |-> <<>>, SubStmt |-> S]
  ELSE [attributed |-> TRUE, Attrs |-> attrs, SubStmt |-> S]

NoResult == [attributed |-> FALSE, Attrs |-> <<>>, SubStmt |-> ""]

\* ProcessNext leaving the loop at the first attribute that is rejected.
ProcessNext_StopAtFailure ==
  /\ pc = "process"
  /\ l <= Len(AttrList)
  /\ LET r == ProcessStmtAttribute(St, SwitchStackEmpty, AttrList[l], l)
     IN /\ Diags' = Diags \o r.diags
        /\ Attrs' = IF r.attr # NoAttr THEN Append(Attrs, r.attr) ELSE Attrs
        /\ l' = IF r.attr # NoAttr THEN l + 1 ELSE Len(AttrList) + 1
  /\ UNCHANGED <<St, SwitchStackEmpty, AttrList, HintAttrs, I, pc, Result, Call>>

\* One iteration of the loop over the attribute list.
ProcessNext ==
  /\ pc = "process"
  /\ l <= Len(AttrList)
  /\ LET r == ProcessStmtAttribute(St, SwitchStackEmpty, AttrList[l], l)
     IN /\ Diags' = Diags \o r.diags
        /\ Attrs' = IF r.attr # NoAttr THEN Append(Attrs, r.attr) ELSE Attrs
  /\ l' = l + 1
  /\ UNCHANGED <<St, SwitchStackEmpty, AttrList, HintAttrs, I, pc, Result, Call>>

\* EnterCheck with slots that keep their contents from call to call.
EnterCheck_StaticSlots ==
  /\ pc = "process"
  /\ l > Len(AttrList)
  /\ pc' = "check"
  /\ I' = 1
  /\ UNCHANGED <<St, SwitchStackEmpty, AttrList, l, Attrs, Diags, HintAttrs, Result, Call>>

\* The list is exhausted: CheckForIncompatibleAttributes is entered, its slots empty.
EnterCheck ==
  /\ pc = "process"
  /\ l > Len(AttrList)
  /\ pc' = "check"
  /\ HintAttrs' = NoHints
  /\ I' = 1
  /\ UNCHANGED <<St, SwitchStackEmpty, AttrList, l, Attrs, Diags, Result, Call>>

\* One iteration of the loop of CheckForIncompatibleAttributes.
CheckNext ==
  /\ pc = "check"
  /\ I <= Len(Attrs)
  /\ LET r == CheckAttr(Attrs, HintAttrs, I)
     IN /\ HintAttrs' = r.HintAttrs
        /\ Diags' = Diags \o r.diags
  /\ I' = I + 1
  /\ UNCHANGED <<St, SwitchStackEmpty, AttrList, l, Attrs, pc, Result, Call>>

\* The checker returns and the accepted attributes are attached.
Return ==
  /\ pc = "check"
  /\ I > Len(Attrs)
  /\ Result' = StmtResult(St, Attrs)
  /\ pc' = "done"
  /\ UNCHANGED <<St, SwitchStackEmpty, AttrList, l, Attrs, Diags, HintAttrs, I, Call>>

Next == ProcessNext \/ EnterCheck \/ CheckNext \/ Return

\* ProcessStmtAttributes is called again, for a statement of the same kind with
\* the same attributes; the diagnostics already emitted stay emitted.
NextCall ==
  /\ pc = "done"
  /\ Call < MaxCalls
  /\ Call' = Call + 1
  /\ l' = 1
  /\ Attrs' = <<>>
  /\ Result' = NoResult
  /\ pc' = "process"
  /\ UNCHANGED <<St, SwitchStackEmpty, AttrList, Diags, HintAttrs, I>>

NextAgain == Next \/ NextCall

\* Sequences over S of length at most n.
SeqsUpTo(S, n) == UNION {[1..k -> S] : k \in 0..n}

InitWith(stmts, switches, lists) ==
  /\ St \in stmts
  /\ SwitchStackEmpty \in switches
  /\ AttrList \in lists
  /\ l = 1
  /\ Attrs = <<>>
  /\ Diags = <<>>
  /\ HintAttrs = NoHints
  /\ I = 1
  /\ pc = "process"
  /\ Result = NoResult
  /\ Call = 1

(***************************************************************************)
(* Inputs                                                                  *)
(***************************************************************************)

\* Constants the evaluator returns: 0, 1, 2, 8, -1, 2^31-1, 2^31, 2^32,
\* 2^32+1 and -2^32+1.
IntConstants ==
  {APS(0, 0, 0, 0), APS(0, 0, 0, 1), APS(0, 0, 0, 2), APS(0, 0, 0, 8),
   APS(65535, 65535, 65535, 65535), APS(0, 0, 32767, 65535), APS(0, 0, 32768, 0),
   APS(0, 1, 0, 0), APS(0, 1, 0, 1), APS(65535, 65535, 0, 1)}

PragmaNames == {"unroll", "nounroll", "loop"}

OptionNames ==
  {"vectorize", "vectorize_width", "interleave", "interleave_count", "unroll",
   "unroll_count", "distribute"}

ValueLocs == {NullLoc, NullIdent, "disable", "enable", "full", "assume_safety"}

ValueExprs == {NoExpr, NonConstExpr} \cup {ConstExpr(v) : v \in IntConstants}

\* "#pragma clang loop" always carries a value token, so its ValueLoc is never
\* null (handleLoopHintAttr reads ValueLoc->Loc on its error paths); "#pragma
\* unroll" and "#pragma nounroll" may come without one.
LoopHintAttrs ==
  {RawLoopHint(p, o, v, e) : <<p, o, v, e>> \in
     {t \in PragmaNames \X OptionNames \X ValueLocs \X ValueExprs :
        t[1] = "loop" => t[3] # NullLoc}}

RawFallThrough == RawOther("AT_FallThrough", FALSE)

RawUnknown == RawOther("UnknownAttribute", FALSE)

RawUnknownDeclspec == RawOther("UnknownAttribute", TRUE)

RawAligned == RawOther("AT_Aligned", FALSE)

Two == APS(0, 0, 0, 2)

\* Every single attribute.
DecodeAttrs == LoopHintAttrs \cup {RawFallThrough, RawUnknown, RawUnknownDeclspec, RawAligned}

\* Loop hints of every option, in both values of the enable form.
LoopAttrs ==
  {RawLoopHint("loop", "vectorize", "enable", NoExpr),
   RawLoopHint("loop", "vectorize", "disable", NoExpr),
   RawLoopHint("loop", "vectorize_width", NullIdent, ConstExpr(Two)),
   RawLoopHint("loop", "interleave", "enable", NoExpr),
   RawLoopHint("loop", "interleave", "disable", NoExpr),
   RawLoopHint("loop", "interleave_count", NullIdent, ConstExpr(Two)),
   RawLoopHint("loop", "unroll", "full", NoExpr),
   RawLoopHint("loop", "unroll_count", NullIdent, ConstExpr(Two)),
   RawLoopHint("unroll", "unroll", NullLoc, NoExpr),
   RawLoopHint("nounroll", "unroll", NullLoc, NoExpr)}

\* Attributes of every kind, with hints that conflict and one that fails.
MixedAttrs ==
  {RawFallThrough, RawUnknown, RawUnknownDeclspec, RawAligned,
   RawLoopHint("loop", "vectorize", "disable", NoExpr),
   RawLoopHint("loop", "vectorize_width", NullIdent, ConstExpr(Two)),
   RawLoopHint("loop", "vectorize_width", NullIdent, ConstExpr(APS(0, 0, 0, 0)))}

\* Any statement, any attribute list.
Init == InitWith(StmtClasses, BOOLEAN, SeqsUpTo(MixedAttrs, MaxAttrs))

Spec == Init /\ [][Next]_vars

\* A loop with a list of loop hints.
InitLoop == InitWith(LoopStmtClasses, {TRUE}, SeqsUpTo(LoopAttrs, MaxAttrs))

SpecLoop == InitLoop /\ [][Next]_vars

\* A loop with a list of loop hints, processed several times.
SpecAgain == InitLoop /\ [][NextAgain]_vars

\* Any statement with one attribute.
InitDecode == InitWith(StmtClasses, BOOLEAN, {<<a>> : a \in DecodeAttrs})

SpecDecode == InitDecode /\ [][Next]_vars

(***************************************************************************)
(* Properties of CheckForIncompatibleAttributes                            *)
(***************************************************************************)

IsCompat(d) == d.id = "err_pragma_loop_compatibility"

\* DuplicateHint (dup = TRUE) or IncompatibleHint (dup = FALSE) diagnostics of
\* category c among ds, emitted over attrs.
CompatOf(ds, attrs, c, dup) ==
  SelectSeq(ds, LAMBDA d : IsCompat(d) /\ d.Duplicate = dup
                            /\ CategoryOf(attrs[d.second].Option) = c)

\* Every compatibility diagnostic of category c.
AllCompatOf(ds, attrs, c) ==
  SelectSeq(ds, LAMBDA d : IsCompat(d) /\ CategoryOf(attrs[d.second].Option) = c)

\* Positions of the loop hints of category c among the first n of attrs.
HintsOf(attrs, n, c) ==
  {i \in 1..n : attrs[i].attr = "LoopHintAttr" /\ CategoryOf(attrs[i].Option) = c}

EnableHintsOf(attrs, c) ==
  {i \in HintsOf(attrs, Len(attrs), c) : attrs[i].Option \in EnableOptions}

NumericHintsOf(attrs, c) ==
  {i \in HintsOf(attrs, Len(attrs), c) : attrs[i].Option \in NumericOptions}

\* The positions the checker has gone through.
Checked == IF pc = "process" THEN 0 ELSE I - 1

Max(a, b) == IF a > b THEN a ELSE b

\* C1 as stated: for each category the checker emits at most one DuplicateHint
\* and at most one IncompatibleHint, however many hints of the category the
\* statement carries.
C1_AtMostOnePerCategory ==
  \A c \in Categories :
    /\ Len(CompatOf(Diags, Attrs, c, TRUE)) <= 1
    /\ Len(CompatOf(Diags, Attrs, c, FALSE)) <= 1

\* C1 amended: each hint of a category adds at most one DuplicateHint and at
\* most one IncompatibleHint, and the first hint of a category adds none, so a
\* category with n hints gets at most n-1 of each (at most one of each when
\* the category has at most two hints).
C1_AtMostOnePerHint ==
  \A c \in Categories :
    LET n == Cardinality(HintsOf(Attrs, Checked, c)) IN
    /\ Len(CompatOf(Diags, Attrs, c, TRUE)) <= Max(n - 1, 0)
    /\ Len(CompatOf(Diags, Attrs, c, FALSE)) <= Max(n - 1, 0)
    /\ \A i \in HintsOf(Attrs, Len(Attrs), c) : \A dup \in BOOLEAN :
         Len(SelectSeq(CompatOf(Diags, Attrs, c, dup),
                       LAMBDA d : d.loc = Attrs[i].Range)) <= 1

\* Three hints of one category have been checked and two diagnostics of one kind
\* were emitted for it.
C1_Witness ==
  /\ pc = "done"
  /\ \E c \in Categories :
       /\ Cardinality(HintsOf(Attrs, Len(Attrs), c)) = 3
       /\ Len(CompatOf(Diags, Attrs, c, TRUE)) = 2

\* The permutations of 1..n, and attrs rearranged by one.
Perms(n) == {p \in [1..n -> 1..n] : \A i, j \in 1..n : p[i] = p[j] => i = j}

Permuted(attrs, p) == [i \in 1..Len(attrs) |-> attrs[p[i]]]

Emits(ds, attrs, c, dup) == CompatOf(ds, attrs, c, dup) # <<>>

\* C2 as stated: under every permutation of the hints, a DuplicateHint is
\* emitted for a category iff one is emitted in the original order, and
\* likewise an IncompatibleHint.
C2_OrderIndependent ==
  pc = "done" =>
    \A p \in Perms(Len(Attrs)) :
      LET q == Permuted(Attrs, p)
          ds == CheckForIncompatibleAttributes(q)
      IN \A c \in Categories : \A dup \in BOOLEAN :
           Emits(Diags, Attrs, c, dup) <=> Emits(ds, q, c, dup)

\* C2 amended: under every permutation, a DuplicateHint is emitted for a
\* category iff one is emitted in the original order, and some diagnostic is
\* emitted for the category iff one is in the original order; an
\* IncompatibleHint is emitted iff one is in the original order when the
\* category is unroll or has at most one enable-form hint.
C2_OrderIndependentAmended ==
  pc = "done" =>
    \A p \in Perms(Len(Attrs)) :
      LET q == Permuted(Attrs, p)
          ds == CheckForIncompatibleAttributes(q)
      IN \A c \in Categories :
           /\ Emits(Diags, Attrs, c, TRUE) <=> Emits(ds, q, c, TRUE)
           /\ (AllCompatOf(Diags, Attrs, c) # <<>>) <=> (AllCompatOf(ds, q, c) # <<>>)
           /\ (c = "Unroll" \/ Cardinality(EnableHintsOf(Attrs, c)) <= 1)
                => (Emits(Diags, Attrs, c, FALSE) <=> Emits(ds, q, c, FALSE))

\* A numeric hint was checked before the enable hint it is incompatible with.
C2_Witness ==
  /\ pc = "done"
  /\ \E c \in Categories :
       /\ Emits(Diags, Attrs, c, FALSE)
       /\ Cardinality(EnableHintsOf(Attrs, c)) = 1
       /\ \E e \in EnableHintsOf(Attrs, c) : \E n \in NumericHintsOf(Attrs, c) : n < e

\* C3: one enable-form and one numeric-form hint of a category, in either
\* order, give exactly one IncompatibleHint (enable hint first, numeric hint
\* second) when the category is unroll or the enable hint's value is 0, and no
\* diagnostic otherwise.
C3_EnableWithNumeric ==
  pc = "done" =>
    \A c \in Categories :
      \A e \in EnableHintsOf(Attrs, c) : \A n \in NumericHintsOf(Attrs, c) :
        (EnableHintsOf(Attrs, c) = {e} /\ NumericHintsOf(Attrs, c) = {n}) =>
          AllCompatOf(Diags, Attrs, c) =
            IF c = "Unroll" \/ Attrs[e].Value = 0
            THEN <<CompatDiag(Attrs[Max(e, n)].Range, FALSE, e, n)>>
            ELSE <<>>

\* unroll_count came before unroll(full) and the pair was reported.
C3_Witness ==
  /\ pc = "done"
  /\ \E e \in EnableHintsOf(Attrs, "Unroll") : \E n \in NumericHintsOf(Attrs, "Unroll") :
       /\ EnableHintsOf(Attrs, "Unroll") = {e}
       /\ NumericHintsOf(Attrs, "Unroll") = {n}
       /\ n < e
       /\ Attrs[e].Value = 1
       /\ AllCompatOf(Diags, Attrs, "Unroll") # <<>>

\* Positions among the first n that hold a hint of option o (the hints of one
\* form and category).
SameUpTo(o, n) == {j \in 1..n : Attrs[j].attr = "LoopHintAttr" /\ Attrs[j].Option = o}

EarlierSame(i) == SameUpTo(Attrs[i].Option, i - 1)

Last(S) == CHOOSE x \in S : \A y \in S : y <= x

SlotOf(H, Option) ==
  IF Option \in EnableOptions THEN H[CategoryOf(Option)].EnableAttr
  ELSE H[CategoryOf(Option)].NumericAttr

\* DuplicateHint diagnostics emitted while the hint at position i was processed.
DupsAt(i) ==
  SelectSeq(Diags, LAMBDA d : IsCompat(d) /\ d.Duplicate /\ d.second = i)

\* C4: a hint whose slot is occupied when it is processed gets a DuplicateHint
\* naming the occupant (the latest earlier hint of its form and category) as
\* previous and itself as current, and the slot then holds that hint; two
\* hints of one form and category give exactly one DuplicateHint, naming
\* both, and the second is retained.
C4_DuplicateOverwrites ==
  /\ \A i \in 1..Checked :
       Attrs[i].attr = "LoopHintAttr" =>
         /\ DupsAt(i) = IF EarlierSame(i) = {} THEN <<>>
                        ELSE <<CompatDiag(Attrs[i].Range, TRUE, Last(EarlierSame(i)), i)>>
         /\ SlotOf(HintAttrs, Attrs[i].Option) = Last(SameUpTo(Attrs[i].Option, Checked))
  /\ pc = "done" =>
       \A i, j \in 1..Len(Attrs) :
         (i < j /\ Attrs[j].attr = "LoopHintAttr"
            /\ SameUpTo(Attrs[j].Option, Len(Attrs)) = {i, j}) =>
           /\ SelectSeq(Diags, LAMBDA d : IsCompat(d) /\ d.Duplicate
                                          /\ Attrs[d.second].Option = Attrs[j].Option)
                = <<CompatDiag(Attrs[j].Range, TRUE, i, j)>>
           /\ SlotOf(HintAttrs, Attrs[j].Option) = j

\* Two vectorize_width hints were checked and reported as duplicates.
C4_Witness ==
  /\ pc = "done"
  /\ \E i, j \in 1..Len(Attrs) :
       /\ i < j
       /\ Attrs[i].Option = "VectorizeWidth"
       /\ Attrs[j].Option = "VectorizeWidth"
       /\ DupsAt(j) = <<CompatDiag(Attrs[j].Range, TRUE, i, j)>>
       /\ HintAttrs["Vectorize"].NumericAttr = j

(***************************************************************************)
(* Properties of Sema::ProcessStmtAttributes                               *)
(***************************************************************************)

\* The attributes of the list from position k on that ProcessStmtAttribute
\* accepts, in the order of the list.
RECURSIVE AcceptedFrom(_)
AcceptedFrom(k) ==
  IF k > Len(AttrList) THEN <<>>
  ELSE LET r == ProcessStmtAttribute(St, SwitchStackEmpty, AttrList[k], k)
       IN (IF r.attr # NoAttr THEN <<r.attr>> ELSE <<>>) \o AcceptedFrom(k + 1)

\* C5: the attributes attached to the statement are exactly the accepted
\* ones in their original order, those named in a DuplicateHint or
\* IncompatibleHint included; the checker leaves the vector as it found it, and
\* with nothing accepted the statement itself is returned.
C5_CheckerIsAdvisory ==
  /\ pc \in {"check", "done"} => Attrs = AcceptedFrom(1)
  /\ pc = "done" =>
       /\ Result.SubStmt = St
       /\ Result.Attrs = AcceptedFrom(1)
       /\ Result.attributed <=> AcceptedFrom(1) # <<>>
       /\ \A k \in 1..Len(Diags) :
            IsCompat(Diags[k]) =>
              \A i \in {Diags[k].first, Diags[k].second} :
                /\ i \in 1..Len(Result.Attrs)
                /\ Result.Attrs[i].attr = "LoopHintAttr"
                /\ AttrList[Result.Attrs[i].Range].Kind = "AT_LoopHint"

\* A rejected hint was left out, and two hints reported as incompatible are both
\* attached.
C5_Witness ==
  /\ pc = "done"
  /\ Result.attributed
  /\ Len(Result.Attrs) = 2
  /\ Len(AttrList) = 3
  /\ \E k \in 1..Len(Diags) : IsCompat(Diags[k]) /\ ~Diags[k].Duplicate

(***************************************************************************)
(* Properties of the handlers, on a single attribute                       *)
(***************************************************************************)

\* Diagnostics other than the checker's that point at position k of the list.
DiagsAt(k) == SelectSeq(Diags, LAMBDA d : ~IsCompat(d) /\ d.loc = k)

IsRawLoopHint(A) == A.Kind = "AT_LoopHint"

OnLoop == St \in {"DoStmt", "ForStmt", "CXXForRangeStmt", "WhileStmt"}

\* A numeric-form hint as written: a generic pragma with a numeric option name,
\* or "#pragma unroll" with a value.
IsRawNumeric(A) ==
  /\ IsRawLoopHint(A)
  /\ \/ A.PragmaName = "loop"
        /\ A.OptionName \in {"vectorize_width", "interleave_count", "unroll_count"}
     \/ A.PragmaName = "unroll" /\ A.ValueLoc # NullLoc

\* C6: a numeric-form hint on a loop whose value expression is absent or not
\* constant fails with InvalidValue; one with constant v decodes iff v >= 1,
\* for every v of the evaluator, and then the hint's value is v.
C6_NumericIffAtLeastOne ==
  \A k \in 1..(l - 1) :
    (OnLoop /\ IsRawNumeric(AttrList[k])) =>
      LET E == AttrList[k].ValueExpr
          got == SelectSeq(Attrs, LAMBDA a : a.Range = k)
      IN IF E.isNull \/ ~E.isICE
         THEN got = <<>> /\ DiagsAt(k) = <<Diag("err_pragma_loop_invalid_value", k, "")>>
         ELSE /\ (got # <<>>) <=> APSAtLeastOne(E.APS)
              /\ got # <<>> => Len(got) = 1 /\ APSOfInt(got[1].Value) = E.APS
              /\ got = <<>> => DiagsAt(k) = <<Diag("err_pragma_loop_invalid_value", k, "")>>

\* The option a generic-pragma enable-form option name stands for.
EnableOptionNamed(name) ==
  CASE name = "vectorize" -> "Vectorize"
    [] name = "interleave" -> "Interleave"
    [] name = "unroll" -> "Unroll"

\* C7: a generic-pragma enable-form hint on a loop decodes to 0 for
\* "disable", to 1 for "full" (unroll) or "enable" (vectorize, interleave),
\* and otherwise, a missing keyword included, fails with InvalidKeyword
\* naming that true-keyword.
C7_Keywords ==
  \A k \in 1..(l - 1) :
    LET A == AttrList[k] IN
    (OnLoop /\ IsRawLoopHint(A) /\ A.PragmaName = "loop"
       /\ A.OptionName \in {"vectorize", "interleave", "unroll"}) =>
      LET kw == IF A.OptionName = "unroll" THEN "full" ELSE "enable"
          opt == EnableOptionNamed(A.OptionName)
          got == SelectSeq(Attrs, LAMBDA a : a.Range = k)
      IN CASE A.ValueLoc = "disable" ->
                got = <<LoopHintAttr("Pragma_clang_loop", opt, 0, k)>> /\ DiagsAt(k) = <<>>
           [] A.ValueLoc = kw ->
                got = <<LoopHintAttr("Pragma_clang_loop", opt, 1, k)>> /\ DiagsAt(k) = <<>>
           [] OTHER ->
                got = <<>> /\ DiagsAt(k) = <<Diag("err_pragma_loop_invalid_keyword", k, kw)>>

\* unroll(enable) on a loop was rejected with InvalidKeyword naming "full".
C7_Witness ==
  /\ l = 2
  /\ OnLoop
  /\ AttrList[1].PragmaName = "loop"
  /\ AttrList[1].OptionName = "unroll"
  /\ AttrList[1].ValueLoc = "enable"
  /\ Attrs = <<>>
  /\ Diags = <<Diag("err_pragma_loop_invalid_keyword", 1, "full")>>

\* C8: on a loop, "#pragma nounroll" decodes to (PlainNoUnroll, Unroll, 0)
\* whatever else it carries, and "#pragma unroll" without a value to
\* (PlainUnroll, Unroll, 1), both without a diagnostic.
C8_PlainSpellings ==
  \A k \in 1..(l - 1) :
    LET A == AttrList[k]
        got == SelectSeq(Attrs, LAMBDA a : a.Range = k)
    IN (OnLoop /\ IsRawLoopHint(A)) =>
         /\ A.PragmaName = "nounroll" =>
              got = <<LoopHintAttr("Pragma_nounroll", "Unroll", 0, k)>> /\ DiagsAt(k) = <<>>
         /\ (A.PragmaName = "unroll" /\ A.ValueLoc = NullLoc) =>
              got = <<LoopHintAttr("Pragma_unroll", "Unroll", 1, k)>> /\ DiagsAt(k) = <<>>

\* "#pragma nounroll" carrying a numeric option name, a keyword and a constant
\* below 1 was decoded.
C8_Witness ==
  /\ l = 2
  /\ OnLoop
  /\ AttrList[1].PragmaName = "nounroll"
  /\ AttrList[1].OptionName = "vectorize_width"
  /\ AttrList[1].ValueLoc = "enable"
  /\ AttrList[1].ValueExpr = ConstExpr(APS(0, 0, 0, 0))
  /\ Attrs = <<LoopHintAttr("Pragma_nounroll", "Unroll", 0, 1)>>

\* C9: a loop hint passes the target check iff the statement is a do, for,
\* range-based for or while loop; elsewhere it is dropped with the single
\* diagnostic PrecedesNonLoop carrying the pragma's spelling, and neither
\* InvalidKeyword nor InvalidValue is emitted for it.
C9_LoopHintTarget ==
  \A k \in 1..(l - 1) :
    LET A == AttrList[k]
        got == SelectSeq(Attrs, LAMBDA a : a.Range = k)
        pragma == IF A.PragmaName = "unroll" THEN "#pragma unroll"
                  ELSE IF A.PragmaName = "nounroll" THEN "#pragma nounroll"
                  ELSE "#pragma clang loop"
    IN IsRawLoopHint(A) =>
         IF OnLoop
         THEN \/ Len(got) = 1 /\ DiagsAt(k) = <<>>
              \/ /\ got = <<>>
                 /\ Len(DiagsAt(k)) = 1
                 /\ DiagsAt(k)[1].id \in {"err_pragma_loop_invalid_keyword",
                                          "err_pragma_loop_invalid_value"}
         ELSE got = <<>> /\ DiagsAt(k) = <<Diag("err_pragma_loop_precedes_nonloop", k, pragma)>>

\* A generic loop hint with a bad keyword before an if statement was dropped
\* with PrecedesNonLoop alone.
C9_Witness ==
  /\ l = 2
  /\ St = "IfStmt"
  /\ AttrList[1].PragmaName = "loop"
  /\ AttrList[1].OptionName = "vectorize"
  /\ AttrList[1].ValueLoc = "assume_safety"
  /\ Diags = <<Diag("err_pragma_loop_precedes_nonloop", 1, "#pragma clang loop")>>

\* C10: a fallthrough attribute is accepted iff the statement is a null
\* statement and a switch is open; on another statement it is dropped with
\* WrongTarget alone, switch or not, plus the insert-semicolon note iff the
\* statement is a case or default label; on a null statement outside a switch
\* it is dropped with OutsideSwitch alone.
C10_Fallthrough ==
  \A k \in 1..(l - 1) :
    AttrList[k].Kind = "AT_FallThrough" =>
      LET got == SelectSeq(Attrs, LAMBDA a : a.Range = k) IN
      /\ (got # <<>>) <=> (St = "NullStmt" /\ ~SwitchStackEmpty)
      /\ got # <<>> => got = <<FallThroughAttr(k)>>
      /\ DiagsAt(k) =
           IF St # "NullStmt"
           THEN <<Diag("err_fallthrough_attr_wrong_target", k, "")>>
                \o (IF St \in {"CaseStmt", "DefaultStmt"}
                    THEN <<Diag("note_fallthrough_insert_semi_fixit", k, ";")>>
                    ELSE <<>>)
           ELSE IF SwitchStackEmpty
           THEN <<Diag("err_fallthrough_attr_outside_switch", k, "")>>
           ELSE <<>>

\* A fallthrough attribute before an if statement outside any switch was
\* dropped with WrongTarget.
C10_Witness ==
  /\ l > 2
  /\ St = "IfStmt"
  /\ SwitchStackEmpty
  /\ AttrList[2].Kind = "AT_FallThrough"
  /\ DiagsAt(2) = <<Diag("err_fallthrough_attr_wrong_target", 2, "")>>

(***************************************************************************)
(* Properties of ProcessStmtAttribute                                      *)
(***************************************************************************)

\* The attribute accepted for position k of the list, if any.
GotAt(k) == SelectSeq(Attrs, LAMBDA a : a.Range = k)

\* An outcome with the position taken out: what was accepted and which
\* diagnostics were emitted.
Outcome(got, ds) ==
  <<[i \in 1..Len(got) |-> [got[i] EXCEPT !.Range = 0]],
    [i \in 1..Len(ds) |-> [ds[i] EXCEPT !.loc = 0]]>>

\* C11: the outcome of an attribute (accepted or dropped, and its gating and
\* decoding diagnostics) is that of the attribute processed on its own before
\* the same statement, whatever the others are and whether they failed; it is
\* left out of the output iff a diagnostic was reported for it; and the
\* whole list is always processed.
C11_PerAttribute ==
  /\ \A k \in 1..(l - 1) :
       LET alone == ProcessStmtAttribute(St, SwitchStackEmpty, AttrList[k], 1) IN
       /\ Outcome(GotAt(k), DiagsAt(k))
            = Outcome(IF alone.attr # NoAttr THEN <<alone.attr>> ELSE <<>>, alone.diags)
       /\ (GotAt(k) = <<>>) <=> (DiagsAt(k) # <<>>)
       /\ \A j \in 1..(l - 1) :
            AttrList[j] = AttrList[k] =>
              Outcome(GotAt(j), DiagsAt(j)) = Outcome(GotAt(k), DiagsAt(k))
  /\ pc # "process" =>
       /\ l = Len(AttrList) + 1
       /\ \A k \in 1..Len(AttrList) : GotAt(k) # <<>> \/ DiagsAt(k) # <<>>
       /\ \A k \in 1..Len(Diags) : Diags[k].loc \in 1..Len(AttrList)

\* A hint was accepted between two attributes that were rejected.
C11_Witness ==
  /\ pc = "done"
  /\ Len(AttrList) = 3
  /\ DiagsAt(1) # <<>>
  /\ GotAt(2) # <<>>
  /\ DiagsAt(3) # <<>>

\* C12: an attribute of unknown kind is always dropped with the unknown
\* attribute warning (warn_unknown_attribute_ignored, or for a __declspec
\* attribute warn_unhandled_ms_attribute_ignored), one of another recognized
\* kind than fallthrough and loop hint always with InvalidOnStmt, whatever the
\* statement and the switch; only fallthrough and loop hint attributes are
\* ever accepted.
C12_Dispatch ==
  /\ \A k \in 1..(l - 1) :
       LET A == AttrList[k] IN
       /\ A.Kind = "UnknownAttribute" =>
            /\ GotAt(k) = <<>>
            /\ DiagsAt(k) = <<Diag(IF A.Declspec THEN "warn_unhandled_ms_attribute_ignored"
                                   ELSE "warn_unknown_attribute_ignored", k, "")>>
       /\ A.Kind \notin {"UnknownAttribute", "AT_FallThrough", "AT_LoopHint"} =>
            /\ GotAt(k) = <<>>
            /\ DiagsAt(k) = <<Diag("err_attribute_invalid_on_stmt", k, "")>>
  /\ \A i \in 1..Len(Attrs) :
       /\ Attrs[i].attr \in {"FallThroughAttr", "LoopHintAttr"}
       /\ Attrs[i].attr = "FallThroughAttr" => AttrList[Attrs[i].Range].Kind = "AT_FallThrough"
       /\ Attrs[i].attr = "LoopHintAttr" => AttrList[Attrs[i].Range].Kind = "AT_LoopHint"
  /\ pc = "done" =>
       \A i \in 1..Len(Result.Attrs) :
         AttrList[Result.Attrs[i].Range].Kind \in {"AT_FallThrough", "AT_LoopHint"}

\* Before a null statement inside a switch, an unknown attribute and a
\* declaration attribute were dropped and a fallthrough attribute accepted.
C12_Witness ==
  /\ pc = "done"
  /\ St = "NullStmt"
  /\ ~SwitchStackEmpty
  /\ \E i, j, k \in 1..Len(AttrList) :
       /\ AttrList[i].Kind = "UnknownAttribute"
       /\ AttrList[j].Kind = "AT_Aligned"
       /\ AttrList[k].Kind = "AT_FallThrough"
  /\ Len(Result.Attrs) = 1

\* C13: a generic-pragma hint on a loop whose option name is none of the six
\* known ones is decoded as Vectorize without a diagnostic about the option:
\* value 1 for "enable", 0 for "disable", InvalidKeyword naming "enable"
\* otherwise, exactly as the vectorize hint with the same keyword.
C13_UnknownOptionIsVectorize ==
  \A k \in 1..(l - 1) :
    LET A == AttrList[k] IN
    (OnLoop /\ IsRawLoopHint(A) /\ A.PragmaName = "loop"
       /\ A.OptionName \notin {"vectorize", "vectorize_width", "interleave",
                               "interleave_count", "unroll", "unroll_count"}) =>
      LET asVectorize ==
            ProcessStmtAttribute(St, SwitchStackEmpty, [A EXCEPT !.OptionName = "vectorize"], k)
      IN /\ CASE A.ValueLoc = "enable" ->
                   GotAt(k) = <<LoopHintAttr("Pragma_clang_loop", "Vectorize", 1, k)>>
                   /\ DiagsAt(k) = <<>>
              [] A.ValueLoc = "disable" ->
                   GotAt(k) = <<LoopHintAttr("Pragma_clang_loop", "Vectorize", 0, k)>>
                   /\ DiagsAt(k) = <<>>
              [] OTHER ->
                   GotAt(k) = <<>>
                   /\ DiagsAt(k) = <<Diag("err_pragma_loop_invalid_keyword", k, "enable")>>
         /\ GotAt(k) = (IF asVectorize.attr # NoAttr THEN <<asVectorize.attr>> ELSE <<>>)
         /\ DiagsAt(k) = asVectorize.diags

\* distribute(enable) with a constant argument on a loop became vectorize(enable).
C13_Witness ==
  /\ l = 2
  /\ OnLoop
  /\ AttrList[1].PragmaName = "loop"
  /\ AttrList[1].OptionName = "distribute"
  /\ AttrList[1].ValueLoc = "enable"
  /\ Attrs = <<LoopHintAttr("Pragma_clang_loop", "Vectorize", 1, 1)>>
  /\ Diags = <<>>

(***************************************************************************)
(* Properties over several calls                                           *)
(***************************************************************************)

\* The diagnostics of the n-th call, when every call so far emitted as many.
Chunk(n) ==
  LET len == Len(Diags) \div Call
  IN SubSeq(Diags, (n - 1) * len + 1, n * len)

\* C14: the checker run again on the same hints emits the same diagnostics in
\* the same order: its slots are empty whenever its loop starts, whatever an
\* earlier call left, and each call emits what the checker emits from empty
\* slots.
C14_SameDiagnosticsEachCall ==
  /\ (pc = "check" /\ I = 1) => HintAttrs = NoHints
  /\ pc = "done" =>
       /\ Len(Diags) % Call = 0
       /\ \A n \in 1..Call :
            /\ Chunk(n) = Chunk(1)
            /\ SelectSeq(Chunk(n), IsCompat) = CheckForIncompatibleAttributes(Attrs)

\* The second call has finished, and the first one had reported a duplicate.
C14_Witness ==
  /\ pc = "done"
  /\ Call = 2
  /\ \E k \in 1..Len(Chunk(1)) : IsCompat(Chunk(1)[k]) /\ Chunk(1)[k].Duplicate
  /\ HintAttrs # NoHints

(***************************************************************************)
(* Invariants of the checker and the decoder                               *)
(***************************************************************************)

\* C15: the checker emits no diagnostic iff every category has at most one
\* enable-form and at most one numeric-form hint, and no category has both
\* forms while it is unroll or its enable-form hint has value 0.
C15_NoConflictEscapes ==
  pc = "done" =>
    ((SelectSeq(Diags, IsCompat) = <<>>) <=>
       \A c \in Categories :
         /\ Cardinality(EnableHintsOf(Attrs, c)) <= 1
         /\ Cardinality(NumericHintsOf(Attrs, c)) <= 1
         /\ ~\E e \in EnableHintsOf(Attrs, c) : \E n \in NumericHintsOf(Attrs, c) :
               c = "Unroll" \/ Attrs[e].Value = 0)

\* Three hints were checked without a diagnostic, vectorize(enable) and
\* vectorize_width among them.
C15_Witness ==
  /\ pc = "done"
  /\ Len(Attrs) = 3
  /\ Diags = <<>>
  /\ EnableHintsOf(Attrs, "Vectorize") # {}
  /\ NumericHintsOf(Attrs, "Vectorize") # {}

\* C16: every LoopHint decoded has value 0 or 1 under an enable-form option
\* and a value of at least 1 under a numeric-form option; PlainNoUnroll comes
\* only with (Unroll, 0), PlainUnroll only with (Unroll, 1) or UnrollCount,
\* and the vectorize and interleave options only with GenericPragma.
C16_LoopHintShape ==
  \A i \in 1..Len(Attrs) :
    LET a == Attrs[i] IN
    a.attr = "LoopHintAttr" =>
      /\ a.Spelling \in {"Pragma_unroll", "Pragma_nounroll", "Pragma_clang_loop"}
      /\ a.Option \in {"Vectorize", "VectorizeWidth", "Interleave", "InterleaveCount",
                       "Unroll", "UnrollCount"}
      /\ a.Option \in {"Vectorize", "Interleave", "Unroll"} => a.Value \in {0, 1}
      /\ a.Option \in {"VectorizeWidth", "InterleaveCount", "UnrollCount"} => a.Value >= 1
      /\ a.Spelling = "Pragma_nounroll" => (a.Option = "Unroll" /\ a.Value = 0)
      /\ a.Spelling = "Pragma_unroll" =>
           ((a.Option = "Unroll" /\ a.Value = 1) \/ a.Option = "UnrollCount")
      /\ a.Option \in {"Vectorize", "VectorizeWidth", "Interleave", "InterleaveCount"} =>
           a.Spelling = "Pragma_clang_loop"

\* "#pragma unroll" with the constant 2^32+1 was decoded to an unroll count.
C16_Witness ==
  /\ l = 2
  /\ AttrList[1].PragmaName = "unroll"
  /\ AttrList[1].ValueExpr = ConstExpr(APS(0, 1, 0, 1))
  /\ Len(Attrs) = 1
  /\ Attrs[1].Option = "UnrollCount"
  /\ Attrs[1].Spelling = "Pragma_unroll"

\* C17: the accepted attributes never hold a fallthrough attribute and a loop
\* hint together: fallthrough is accepted only before a null statement, loop
\* hints only before loops, and before any other statement nothing is
\* accepted and the statement itself is returned.
C17_NeverMixed ==
  /\ \A i, j \in 1..Len(Attrs) : Attrs[i].attr = Attrs[j].attr
  /\ \A i \in 1..Len(Attrs) :
       /\ Attrs[i].attr = "FallThroughAttr" => St = "NullStmt"
       /\ Attrs[i].attr = "LoopHintAttr" =>
            St \in {"DoStmt", "ForStmt", "CXXForRangeStmt", "WhileStmt"}
  /\ St \notin {"NullStmt", "DoStmt", "ForStmt", "CXXForRangeStmt", "WhileStmt"} =>
       /\ Attrs = <<>>
       /\ pc = "done" => Result = [attributed |-> FALSE, Attrs |-> <<>>, SubStmt |-> St]

\* Before a null statement inside a switch, a list with a loop hint and two
\* fallthrough attributes gave two fallthrough attributes and no hint.
C17_Witness ==
  /\ pc = "done"
  /\ St = "NullStmt"
  /\ \E k \in 1..Len(AttrList) : AttrList[k].Kind = "AT_LoopHint"
  /\ Len(Result.Attrs) = 2
  /\ \A i \in 1..Len(Result.Attrs) : Result.Attrs[i].attr = "FallThroughAttr"

\* The category an option belongs to, by its name.
CategoryNamed(Option) ==
  IF Option \in {"Vectorize", "VectorizeWidth"} THEN "Vectorize"
  ELSE IF Option \in {"Interleave", "InterleaveCount"} THEN "Interleave"
  ELSE "Unroll"

\* The hints of category c, in order.
OnlyCategory(attrs, c) ==
  SelectSeq(attrs, LAMBDA a : a.attr = "LoopHintAttr" /\ CategoryNamed(a.Option) = c)

\* Compatibility diagnostics with the hints named by their source position.
BySource(ds, attrs) ==
  [k \in 1..Len(ds) |->
     <<ds[k].Duplicate, ds[k].loc, attrs[ds[k].first].Range, attrs[ds[k].second].Range>>]

\* C18: each slot holds the latest checked hint of its own form and category
\* and is null when there is none, so a hint changes no slot but its own; the
\* diagnostics of a category are those the checker emits on the hints of that
\* category alone; and no diagnostic names hints of two categories.
C18_CategoriesIndependent ==
  /\ \A o \in EnableOptions \cup NumericOptions :
       LET slot == IF o \in {"Vectorize", "Interleave", "Unroll"}
                   THEN HintAttrs[CategoryNamed(o)].EnableAttr
                   ELSE HintAttrs[CategoryNamed(o)].NumericAttr
       IN slot = IF SameUpTo(o, Checked) = {} THEN nullptr ELSE Last(SameUpTo(o, Checked))
  /\ \A k \in 1..Len(Diags) :
       IsCompat(Diags[k]) =>
         /\ CategoryNamed(Attrs[Diags[k].first].Option)
              = CategoryNamed(Attrs[Diags[k].second].Option)
         /\ Diags[k].loc \in {Attrs[Diags[k].first].Range, Attrs[Diags[k].second].Range}
  /\ pc = "done" =>
       \A c \in Categories :
         BySource(SelectSeq(Diags, LAMBDA d : IsCompat(d)
                                              /\ CategoryNamed(Attrs[d.second].Option) = c),
                  Attrs)
           = BySource(CheckForIncompatibleAttributes(OnlyCategory(Attrs, c)),
                      OnlyCategory(Attrs, c))

\* Hints of two categories were interleaved and each category got its own
\* diagnostic.
C18_Witness ==
  /\ pc = "done"
  /\ Len(Attrs) = 3
  /\ Attrs[1].Option = "Vectorize" /\ Attrs[1].Value = 0
  /\ Attrs[2].Option = "Interleave"
  /\ Attrs[3].Option = "VectorizeWidth"
  /\ Len(Diags) = 1
  /\ Diags[1] = CompatDiag(3, FALSE, 1, 3)

====
